---- MODULE Spec2Model ----
(***************************************************************************)
(* FixedSizeArrayTracker (src/fixed_size_array_tracker.cpp, second, current *)
(* definition of the class, lines 110-297): bookkeeping of which ranges of  *)
(* a fixed-size array are occupied by which id.                             *)
(*                                                                          *)
(* unsigned int is modelled with Width bits; every sum and difference the   *)
(* code computes on unsigned int is taken modulo 2^Width.                   *)
(* std::unordered_map iterates in an order the standard leaves open: each   *)
(* traversal whose order matters takes an arbitrary permutation of the ids. *)
(***************************************************************************)
EXTENDS Integers, Sequences, FiniteSets, TLC

\* ---- bounds -------------------------------------------------------------
\* bits of unsigned int
Width == 3
\* ids the callers use are 1 .. MaxIds
MaxIds == 2
\* the constructor's size argument is 0 .. MaxSize
MaxSize == 2
\* start and length arguments are 0 .. MaxSmall, or the largest unsigned int
MaxSmall == 2

\* ---- unsigned int -------------------------------------------------------
Mod == 2 ^ Width
UInt == 0 .. (Mod - 1)
add32(a, b) == (a + b) % Mod
sub32(a, b) == (a - b + Mod) % Mod

Ids == 1 .. MaxIds
\* one id more: three live entries at the bounds above
ManyIds == 1 .. (MaxIds + 1)
Sizes == 0 .. MaxSize
InputValues == (0 .. MaxSmall) \cup {Mod - 1}

\* std::nullopt of optional<unsigned int>
NoSpace == -1

\* the two callers of the check-then-act pair
Callers == {1, 2}

VARIABLES size, metadata, occupied_intervals, last, callers

vars == <<size, metadata, occupied_intervals, last, callers>>

\* ---- std::set<pair<unsigned,unsigned>> ordering ------------------------
PairLess(a, b) == a[1] < b[1] \/ (a[1] = b[1] /\ a[2] < b[2])

FirstInterval(S) == CHOOSE x \in S : \A y \in S \ {x} : PairLess(x, y)

\* ---- find_contiguous_space ----------------------------------------------
RECURSIVE ScanIntervals(_, _, _, _)
ScanIntervals(rest, last_end, sz, length) ==
    IF rest = {}
    THEN IF sub32(sz, last_end) >= length THEN last_end ELSE NoSpace
    ELSE LET iv == FirstInterval(rest)
         IN  IF sub32(iv[1], last_end) >= length
             THEN last_end
             ELSE ScanIntervals(rest \ {iv}, iv[2], sz, length)

find_contiguous_space(occ, sz, length) == ScanIntervals(occ, 0, sz, length)

\* ---- add_metadata -------------------------------------------------------
Collides(start, length, interval) ==
    ~(add32(start, length) <= interval[1] \/ start >= interval[2])

\* add_metadata storing (start, length) where the interval (start, end) belongs
add_metadata_length_as_end(md, occ, sz, id, start, length) ==
    IF id \in DOMAIN md
    THEN [ok |-> FALSE, metadata |-> md, occupied_intervals |-> occ]
    ELSE IF add32(start, length) > sz
    THEN [ok |-> FALSE, metadata |-> md, occupied_intervals |-> occ]
    ELSE IF \E interval \in occ : Collides(start, length, interval)
    THEN [ok |-> FALSE, metadata |-> md, occupied_intervals |-> occ]
    ELSE [ok |-> TRUE,
          metadata |-> [i \in DOMAIN md \cup {id} |->
                           IF i = id THEN <<start, length>> ELSE md[i]],
          occupied_intervals |-> occ \cup {<<start, length>>}]

add_metadata(md, occ, sz, id, start, length) ==
    IF id \in DOMAIN md
    THEN [ok |-> FALSE, metadata |-> md, occupied_intervals |-> occ]
    ELSE IF add32(start, length) > sz
    THEN [ok |-> FALSE, metadata |-> md, occupied_intervals |-> occ]
    ELSE IF \E interval \in occ : Collides(start, length, interval)
    THEN [ok |-> FALSE, metadata |-> md, occupied_intervals |-> occ]
    ELSE [ok |-> TRUE,
          metadata |-> [i \in DOMAIN md \cup {id} |->
                           IF i = id THEN <<start, length>> ELSE md[i]],
          occupied_intervals |-> occ \cup {<<start, add32(start, length)>>}]

\* ---- remove_metadata ----------------------------------------------------
\* remove_metadata erasing the table entry and leaving the interval behind
remove_metadata_keeps_interval(md, occ, id) ==
    IF id \in DOMAIN md
    THEN [found |-> TRUE,
          metadata |-> [i \in DOMAIN md \ {id} |-> md[i]],
          occupied_intervals |-> occ]
    ELSE [found |-> FALSE, metadata |-> md, occupied_intervals |-> occ]

remove_metadata(md, occ, id) ==
    IF id \in DOMAIN md
    THEN [found |-> TRUE,
          metadata |-> [i \in DOMAIN md \ {id} |-> md[i]],
          occupied_intervals |->
              occ \ {<<md[id][1], add32(md[id][1], md[id][2])>>}]
    ELSE [found |-> FALSE, metadata |-> md, occupied_intervals |-> occ]

\* ---- get_metadata -------------------------------------------------------
get_metadata(md, id) == IF id \in DOMAIN md THEN md[id] ELSE <<>>

\* ---- compact ------------------------------------------------------------
\* the orders in which the unordered_map may present its keys
IterationOrders(md) ==
    {o \in [1 .. Cardinality(DOMAIN md) -> DOMAIN md] :
        \A i, j \in 1 .. Cardinality(DOMAIN md) : i # j => o[i] # o[j]}

\* current_index when the loop reaches position k of the traversal
RECURSIVE CurrentIndex(_, _, _)
CurrentIndex(md, order, k) ==
    IF k = 1 THEN 0
    ELSE add32(CurrentIndex(md, order, k - 1), md[order[k - 1]][2])

PositionOf(order, id) == CHOOSE k \in DOMAIN order : order[k] = id

compact(md, order) ==
    LET new_metadata == [id \in DOMAIN md |->
                            <<CurrentIndex(md, order, PositionOf(order, id)),
                              md[id][2]>>]
    IN  [metadata |-> new_metadata,
         occupied_intervals |->
             {<<new_metadata[id][1],
                add32(new_metadata[id][1], new_metadata[id][2])>> :
                  id \in DOMAIN new_metadata}]

\* ---- get_usage_percentage: the numerator ---------------------------------
RECURSIVE used_space(_, _)
used_space(md, ids) ==
    IF ids = {} THEN 0
    ELSE LET id == CHOOSE i \in ids : TRUE
         IN  add32(used_space(md, ids \ {id}), md[id][2])

\* ---- the state machine --------------------------------------------------
\* callers[c] is where caller c stands in its pair of calls
\* find_contiguous_space(length); add_metadata(id, start, length):
\* "idle" before the first call, "found" holding the start it was handed,
\* "gave_up" when it was handed nothing, "done" after its add_metadata.
IdleCaller ==
    [pc |-> "idle", length |-> 0, start |-> NoSpace, id |-> 0, ok |-> FALSE]

\* last records the operation that produced the state and, for add_metadata,
\* the value it returned.
Init ==
    /\ size \in Sizes
    /\ metadata = <<>>
    /\ occupied_intervals = {}
    /\ last = [op |-> "constructor", ok |-> TRUE]
    /\ callers = [c \in Callers |-> IdleCaller]

AddMetadata(ids) ==
    \E id \in ids, start \in InputValues, length \in InputValues :
        LET r == add_metadata(metadata, occupied_intervals, size,
                              id, start, length)
        IN  /\ metadata' = r.metadata
            /\ occupied_intervals' = r.occupied_intervals
            /\ last' = [op |-> "add_metadata", ok |-> r.ok]
            /\ UNCHANGED <<size, callers>>

RemoveMetadata(ids) ==
    \E id \in ids :
        LET r == remove_metadata(metadata, occupied_intervals, id)
        IN  /\ metadata' = r.metadata
            /\ occupied_intervals' = r.occupied_intervals
            /\ last' = [op |-> "remove_metadata", ok |-> TRUE]
            /\ UNCHANGED <<size, callers>>

Compact ==
    \E order \in IterationOrders(metadata) :
        LET r == compact(metadata, order)
        IN  /\ metadata' = r.metadata
            /\ occupied_intervals' = r.occupied_intervals
            /\ last' = [op |-> "compact", ok |-> TRUE]
            /\ UNCHANGED <<size, callers>>

FindContiguousSpace ==
    \E length \in InputValues :
        /\ last' = [op |-> "find_contiguous_space",
                    ok |-> TRUE]
        /\ UNCHANGED <<size, metadata, occupied_intervals, callers>>

NextOn(ids) ==
    \/ AddMetadata(ids)
    \/ RemoveMetadata(ids)
    \/ Compact
    \/ FindContiguousSpace

Next == NextOn(Ids)

Spec == Init /\ [][Next]_vars

\* the same machine driven with one more id
NextMany == NextOn(ManyIds)

SpecMany == Init /\ [][NextMany]_vars

\* ---- two callers, each find_contiguous_space then add_metadata ----------
RaceNotStarted == \A c \in Callers : callers[c].pc = "idle"

\* the length both callers ask for: chosen by the first to call
RaceLengths ==
    IF RaceNotStarted
    THEN InputValues \ {0}
    ELSE {callers[c].length : c \in {d \in Callers : callers[d].pc # "idle"}}

CallerFind(c) ==
    /\ callers[c].pc = "idle"
    /\ \E length \in RaceLengths :
           LET s == find_contiguous_space(occupied_intervals, size, length)
           IN  callers' = [callers EXCEPT ![c] =
                              [pc |-> IF s = NoSpace THEN "gave_up"
                                                     ELSE "found",
                               length |-> length, start |-> s,
                               id |-> 0, ok |-> FALSE]]
    /\ last' = [op |-> "find_contiguous_space", ok |-> TRUE]
    /\ UNCHANGED <<size, metadata, occupied_intervals>>

CallerAdd(c, ids) ==
    /\ callers[c].pc = "found"
    /\ \E id \in ids \ DOMAIN metadata :
           LET r == add_metadata(metadata, occupied_intervals, size,
                                 id, callers[c].start, callers[c].length)
           IN  /\ metadata' = r.metadata
               /\ occupied_intervals' = r.occupied_intervals
               /\ last' = [op |-> "add_metadata", ok |-> r.ok]
               /\ callers' = [callers EXCEPT ![c] =
                                  [@ EXCEPT !.pc = "done", !.id = id,
                                            !.ok = r.ok]]
    /\ UNCHANGED size

\* any history of the tracker, then the two pairs interleaved
NextRace ==
    \/ RaceNotStarted /\ AddMetadata(ManyIds)
    \/ RaceNotStarted /\ RemoveMetadata(ManyIds)
    \/ RaceNotStarted /\ Compact
    \/ \E c \in Callers : CallerFind(c)
    \/ \E c \in Callers : CallerAdd(c, ManyIds)

SpecRace == Init /\ [][NextRace]_vars

TypeOK ==
    /\ size \in UInt
    /\ DOMAIN metadata \subseteq ManyIds
    /\ \A id \in DOMAIN metadata : metadata[id] \in UInt \X UInt
    /\ occupied_intervals \subseteq UInt \X UInt
    /\ \A c \in Callers :
           callers[c].pc \in {"idle", "found", "gave_up", "done"}

\* ---- the regions of the table, as the claims speak of them --------------
RegionStart(md, id) == md[id][1]
RegionLength(md, id) == md[id][2]
RegionEnd(md, id) == md[id][1] + md[id][2]

RECURSIVE SumOfLengths(_, _)
SumOfLengths(md, ids) ==
    IF ids = {} THEN 0
    ELSE LET id == CHOOSE i \in ids : TRUE
         IN  md[id][2] + SumOfLengths(md, ids \ {id})

\* a cell is free when it lies in no live entry's range [start, start+length)
CellFree(c) ==
    \A id \in DOMAIN metadata :
        ~(RegionStart(metadata, id) <= c /\ c < RegionEnd(metadata, id))

\* the range [s, s+L) lies within the array and passes add_metadata's
\* overlap test against every occupied interval
Fits(s, L) ==
    /\ s + L <= size
    /\ \A other \in occupied_intervals : s + L <= other[1] \/ s >= other[2]

\* C1: no two distinct live entries overlap: for live ids a # b,
\* start(a) + length(a) <= start(b) or start(b) + length(b) <= start(a).
C1_NoOverlap ==
    \A a, b \in DOMAIN metadata :
        a # b => \/ RegionEnd(metadata, a) <= RegionStart(metadata, b)
                 \/ RegionEnd(metadata, b) <= RegionStart(metadata, a)

\* C2: occupied_intervals is exactly the set of (start, start+length) of the
\* table's entries (the end taken as the code computes it), and distinct ids
\* have distinct regions.
C2_IndexSynchronised ==
    /\ occupied_intervals =
           {<<RegionStart(metadata, id),
              add32(RegionStart(metadata, id), RegionLength(metadata, id))>> :
                id \in DOMAIN metadata}
    /\ \A a, b \in DOMAIN metadata : a # b => metadata[a] # metadata[b]

\* C3: whenever find_contiguous_space(L) returns a start s, add_metadata of
\* any unused id at (s, L) succeeds and adds the entry.
C3_FindThenInsert ==
    \A L \in UInt :
        LET s == find_contiguous_space(occupied_intervals, size, L)
        IN  s # NoSpace =>
                \A id \in Ids \ DOMAIN metadata :
                    LET r == add_metadata(metadata, occupied_intervals, size,
                                          id, s, L)
                    IN  /\ r.ok
                        /\ id \in DOMAIN r.metadata
                        /\ r.metadata[id] = <<s, L>>

\* C4: whenever find_contiguous_space(L) returns nothing, no s with
\* s + L <= N has all of the cells s .. s+L-1 free.
C4_FindExhaustive ==
    \A L \in UInt :
        find_contiguous_space(occupied_intervals, size, L) = NoSpace =>
            ~ \E s \in 0 .. size :
                  /\ s + L <= size
                  /\ \A c \in s .. (s + L - 1) : CellFree(c)

\* C5: whenever find_contiguous_space(L) returns s, the range [s, s+L) lies
\* within the array and passes the overlap test, and no smaller start does.
C5_FirstFit ==
    \A L \in UInt :
        LET s == find_contiguous_space(occupied_intervals, size, L)
        IN  s # NoSpace =>
                /\ Fits(s, L)
                /\ \A t \in 0 .. (s - 1) : ~Fits(t, L)

\* C6: compact keeps the order of the entries by start: start(a) < start(b)
\* before implies start(a) <= start(b) after, whatever order the map is
\* traversed in.
C6_CompactKeepsOrder ==
    \A order \in IterationOrders(metadata) :
        LET after == compact(metadata, order).metadata
        IN  \A a, b \in DOMAIN metadata :
                RegionStart(metadata, a) < RegionStart(metadata, b)
                    => RegionStart(after, a) <= RegionStart(after, b)

\* a listing of the entries by ascending start in which the first region
\* starts at 0, each next one starts where the previous one ends, and the
\* last one ends at the sum of all lengths
ContiguousFromZero(md) ==
    \/ DOMAIN md = {}
    \/ \E listing \in IterationOrders(md) :
          LET n == Cardinality(DOMAIN md)
          IN  /\ RegionStart(md, listing[1]) = 0
              /\ \A k \in 1 .. (n - 1) :
                    /\ RegionStart(md, listing[k])
                           <= RegionStart(md, listing[k + 1])
                    /\ RegionStart(md, listing[k + 1])
                           = RegionEnd(md, listing[k])
              /\ RegionEnd(md, listing[n]) = SumOfLengths(md, DOMAIN md)

\* C7: compact keeps the set of ids and every length, and leaves the regions
\* contiguous from 0, the last end being the sum of all lengths.
C7_CompactLayout ==
    \A order \in IterationOrders(metadata) :
        LET after == compact(metadata, order).metadata
        IN  /\ DOMAIN after = DOMAIN metadata
            /\ \A id \in DOMAIN metadata :
                   RegionLength(after, id) = RegionLength(metadata, id)
            /\ ContiguousFromZero(after)

\* C8: compact twice in a row gives the table and the occupied set that
\* compact once gives, whatever orders the map is traversed in.
C8_CompactIdempotent ==
    \A first \in IterationOrders(metadata) :
        LET once == compact(metadata, first)
        IN  \A second \in IterationOrders(once.metadata) :
                compact(once.metadata, second) = once

\* C9: a successful add_metadata(id, s, l) followed by remove_metadata(id)
\* leaves the table and occupied_intervals as they were before the insert.
C9_RemovalRoundTrip ==
    \A id \in Ids, s \in UInt, l \in UInt :
        LET added == add_metadata(metadata, occupied_intervals, size, id, s, l)
            removed == remove_metadata(added.metadata,
                                       added.occupied_intervals, id)
        IN  added.ok =>
                /\ removed.metadata = metadata
                /\ removed.occupied_intervals = occupied_intervals

\* C10: add_metadata(id, start, length) returns false and changes neither
\* the table nor occupied_intervals whenever id is present, or
\* start + length > N, or the range fails the overlap test against some
\* occupied interval.
C10_RejectedInsertChangesNothing ==
    \A id \in Ids, start \in UInt, length \in UInt :
        (\/ id \in DOMAIN metadata
         \/ start + length > size
         \/ \E other \in occupied_intervals :
               ~(start + length <= other[1] \/ start >= other[2]))
        => LET r == add_metadata(metadata, occupied_intervals, size,
                                 id, start, length)
           IN  /\ ~r.ok
               /\ r.metadata = metadata
               /\ r.occupied_intervals = occupied_intervals
\* C11: add_metadata is rejected whenever start + length, as a number,
\* exceeds N, also when the unsigned sum wraps to a value <= N; and every
\* occupied interval (start, end) has start <= end <= N.
C11_BoundsUnsigned ==
    /\ \A id \in Ids, start \in InputValues, length \in InputValues :
           start + length > size =>
               ~add_metadata(metadata, occupied_intervals, size,
                             id, start, length).ok
    /\ \A interval \in occupied_intervals :
           interval[1] <= interval[2] /\ interval[2] <= size

\* C12: when id is absent, start + length <= N and the range passes the
\* overlap test against every occupied interval, add_metadata returns true,
\* the table becomes the old table with id -> (start, length) added, and
\* occupied_intervals becomes the old set with (start, start+length) added.
C12_SuccessfulInsertEffect ==
    \A id \in Ids, start \in InputValues, length \in InputValues :
        (/\ id \notin DOMAIN metadata
         /\ start + length <= size
         /\ \A other \in occupied_intervals :
                start + length <= other[1] \/ start >= other[2])
        => LET r == add_metadata(metadata, occupied_intervals, size,
                                 id, start, length)
           IN  /\ r.ok
               /\ DOMAIN r.metadata = DOMAIN metadata \cup {id}
               /\ r.metadata[id] = <<start, length>>
               /\ \A other \in DOMAIN metadata :
                      r.metadata[other] = metadata[other]
               /\ r.occupied_intervals =
                      occupied_intervals \cup {<<start, start + length>>}

\* an insert has just returned true and the table holds two entries backed
\* by two intervals
C12_Witness ==
    /\ last.op = "add_metadata"
    /\ last.ok
    /\ Cardinality(DOMAIN metadata) = 2
    /\ Cardinality(occupied_intervals) = 2

\* C13: remove_metadata(id) with id present deletes that id from the table
\* and its interval (start, end as stored) from occupied_intervals, leaves
\* every other entry as it was, and get_metadata(id) then returns nothing;
\* with id absent it changes neither the table nor occupied_intervals.
C13_RemoveEffect ==
    \A id \in Ids :
        LET r == remove_metadata(metadata, occupied_intervals, id)
        IN  IF id \in DOMAIN metadata
            THEN /\ DOMAIN r.metadata = DOMAIN metadata \ {id}
                 /\ \A other \in DOMAIN r.metadata :
                        r.metadata[other] = metadata[other]
                 /\ r.occupied_intervals =
                        occupied_intervals \
                            {<<RegionStart(metadata, id),
                               add32(RegionStart(metadata, id),
                                     RegionLength(metadata, id))>>}
                 /\ get_metadata(r.metadata, id) = <<>>
            ELSE /\ r.metadata = metadata
                 /\ r.occupied_intervals = occupied_intervals

\* a remove has just left one entry, backed by its interval, in the table
C13_Witness ==
    /\ last.op = "remove_metadata"
    /\ Cardinality(DOMAIN metadata) = 1
    /\ \E id \in DOMAIN metadata :
           occupied_intervals =
               {<<RegionStart(metadata, id), RegionEnd(metadata, id)>>}

\* C14: the sum of the lengths of all live entries is at most N.
C14_UsageWithinCapacity ==
    SumOfLengths(metadata, DOMAIN metadata) <= size

\* C15: no tracker has capacity 0.
C15_NonZeroCapacity == size # 0

\* C17: right after compact, with U the sum of the live lengths,
\* find_contiguous_space(L) returns U for 0 < L <= N - U and nothing for
\* L > N - U.
C17_CompactGathersFreeSpace ==
    \A order \in IterationOrders(metadata) :
        LET after == compact(metadata, order)
            U == SumOfLengths(after.metadata, DOMAIN after.metadata)
        IN  \A L \in InputValues :
                LET s == find_contiguous_space(after.occupied_intervals,
                                               size, L)
                IN  /\ (0 < L /\ L <= size - U) => s = U
                    /\ L > size - U => s = NoSpace
\* C16: when both callers were handed the same start, at most one of their
\* two inserts succeeds; and when both inserts succeed, the two regions they
\* put in the table do not overlap.
C16_RaceContained ==
    (\A c \in Callers : callers[c].pc = "done") =>
        /\ callers[1].start = callers[2].start
               => ~(callers[1].ok /\ callers[2].ok)
        /\ (callers[1].ok /\ callers[2].ok) =>
               \/ RegionEnd(metadata, callers[1].id)
                      <= RegionStart(metadata, callers[2].id)
               \/ RegionEnd(metadata, callers[2].id)
                      <= RegionStart(metadata, callers[1].id)
====
